---- MODULE Spec2Model ----
(***************************************************************************)
(* Model of the df-parallel benchmark notebooks.                           *)
(*                                                                         *)
(* One notebook execution ("run") is a fresh kernel that executes the      *)
(* notebook's code cells top to bottom and stops at the first cell that    *)
(* raises.  The four harness notebooks (2-PandasDataframe,                 *)
(* 3-DaskDataframe, 4-SparkDataframe, 6-DaskCudaDataframe) share the data  *)
(* directory and the results directory; 1-FetchLocalData fills the data    *)
(* directory.  Every action below is one code cell.                        *)
(*                                                                         *)
(* Modelling assumptions: the calls into the wrapped engines succeed when  *)
(* the files they read exist (except under SpecFaults, where executing the *)
(* plan may raise); every cell takes one tick of the clock; file           *)
(* sizes are counted in units of 10^7 bytes; of the seven columns read     *)
(* only type_of_gene and #tax_id are kept, the other five never influence  *)
(* a result.                                                               *)
(***************************************************************************)
EXTENDS Integers, Sequences, FiniteSets, TLC

VARIABLES
    environ,      \* os.environ: the environment the kernels are started in
    fetch,        \* the last run of 1-FetchLocalData: its steps and its error
    home,         \* the dataset under ~/data (gene_info.gz, gene_info.parquet)
    tsv,          \* DATA_DIR/gene_info.tsv
    parquet,      \* DATA_DIR/gene_info.parquet
    results_dir,  \* TRUE when the directory RESULTS_DIR exists
    results,      \* the files of RESULTS_DIR: file name -> file
    clock,        \* time.time()
    runs,         \* number of harness runs started so far
    notebook,     \* the notebook the kernel is executing
    pc,           \* the next cell of the run
    ns,           \* the names defined in the kernel
    n_cores, file_format, DATA_DIR, file_size, filename, start, end,
    client,       \* the Dask client / the Spark session
    genes, groups,
    lazy,         \* TRUE while groups is a task graph / query plan
    stdout,       \* what the cells printed
    error,        \* the exception that ended the run, "" when none
    trace,        \* the steps this run has executed, in order
    results0,     \* RESULTS_DIR's files as they were when the run started
    data0,        \* DATA_DIR's files as they were when the run started
    log,          \* every to_csv call so far: the run's parameters and the name
    io            \* the calls of this run that open or size an input file

envVars == <<environ, fetch, home, tsv, parquet, results_dir, results, clock, runs>>
paramVars == <<notebook, n_cores, file_format>>
dataVars == <<DATA_DIR, file_size, filename, start, end, client, genes, groups, lazy>>
kernelVars == <<paramVars, pc, ns, dataVars, stdout, error, trace, results0, data0, log, io>>
vars == <<envVars, kernelVars>>

(***************************************************************************)
(* Bounds of the model.                                                    *)
(***************************************************************************)
MaxRuns == 2     \* harness runs in one behaviour
MaxRows == 3     \* rows of a generated input table

(***************************************************************************)
(* Values.                                                                 *)
(***************************************************************************)
Pandas == "2-PandasDataframe"
Dask == "3-DaskDataframe"
SparkNb == "4-SparkDataframe"
DaskCuda == "6-DaskCudaDataframe"
Harnesses == {Pandas, Dask, SparkNb, DaskCuda}

\* the "dataframe" field each result-writing cell puts into its row
EngineName(nb) ==
    CASE nb = Pandas -> "Pandas"
      [] nb = Dask -> "Dask"
      [] nb = SparkNb -> "Spark"
      [] nb = DaskCuda -> "DaskCuda"

\* the values papermill may inject into the parameters cell
CoreCounts == {-1, 0, 1, 2}
FileFormats == {"csv", "parquet", "orc"}

NULL == "NaN"
TaxIds == {"9606", "10090"}
GeneTypes == {"protein-coding", "ncRNA"}
Columns == {"type_of_gene", "#tax_id"}
Row(t, x) == [c \in Columns |-> IF c = "type_of_gene" THEN t ELSE x]
Rows == {Row(t, x) : t \in GeneTypes, x \in TaxIds \cup {NULL}}

RECURSIVE TablesOfLen(_)
TablesOfLen(n) ==
    IF n = 0 THEN {<<>>}
    ELSE {Append(t, r) : t \in TablesOfLen(n - 1), r \in Rows}
AllTables == UNION {TablesOfLen(n) : n \in 0..MaxRows}

\* two dataset snapshots; sizes are in units of 10^7 bytes
Snapshot1 ==
    [size |-> 648, psize |-> 212,
     rows |-> <<Row("protein-coding", "9606"), Row("ncRNA", "9606"),
                Row("protein-coding", "10090"), Row("protein-coding", NULL)>>]
Snapshot2 ==
    [size |-> 661, psize |-> 215,
     rows |-> <<Row("protein-coding", "9606"), Row("protein-coding", "9606"),
                Row("protein-coding", "10090")>>]

NoFile == [exists |-> FALSE, size |-> 0, rows |-> <<>>]
TsvOf(d) == [exists |-> TRUE, size |-> d.size, rows |-> d.rows]
ParquetOf(d) == [exists |-> TRUE, size |-> d.psize, rows |-> d.rows]


(***************************************************************************)
(* Pure functions of the cells.                                            *)
(***************************************************************************)

\* f"{os.path.getsize(filename)/1E9:.1f}": GB with one decimal, rounded to nearest
FormatSize(size) ==
    LET tenths == (size + 5) \div 10
    IN  ToString(tenths \div 10) \o "." \o ToString(tenths % 10)

\* Getenv gone wrong: the variable is not looked up
GetenvDefaultOnly(env, name, default) == default

\* os.getenv(name, default=default): the value of the variable when the
\* environment has it, the default otherwise
Getenv(env, name, default) == IF name \in DOMAIN env THEN env[name] ELSE default

\* os.path.join(dir, name) for a directory that does not end in a separator
DataPath(dir, name) == IF dir = "" THEN name ELSE dir \o "/" \o name

\* the predicate of filters=[[("type_of_gene", "==", "protein-coding")]] and of
\* query("type_of_gene == 'protein-coding'")
IsProteinCoding(row) == row["type_of_gene"] = "protein-coding"

\* read_csv(filename, usecols=column_names, dtype=str, sep="\t"): every row of the file
ReadCsv(file) == file.rows

\* Query gone wrong: the predicate is not applied
QueryKeepsAll(table) == table

\* genes.query(...), genes[mask], genes.filter(...): the rows satisfying the predicate
Query(table) == SelectSeq(table, IsProteinCoding)

\* ReadParquetFiltered gone wrong: filters only prunes row groups, every row
\* of the file is returned
ReadParquetRowGroups(file) == file.rows

\* read_parquet(filename, columns=column_names, filters=filters): the predicate is
\* applied while the row groups are loaded
ReadParquetFiltered(file) ==
    LET keep == {i \in DOMAIN file.rows : IsProteinCoding(file.rows[i])}
        RECURSIVE Load(_)
        Load(n) == IF n = 0 THEN <<>>
                   ELSE IF n \in keep THEN Append(Load(n - 1), file.rows[n])
                   ELSE Load(n - 1)
    IN  Load(Len(file.rows))

\* spark.read.parquet(filename): every row of the file
ReadParquet(file) == file.rows

\* rename(columns={old: new}) / withColumnRenamed(old, new)
RenameRow(row, old, new) ==
    IF old \notin DOMAIN row THEN row
    ELSE [c \in (DOMAIN row \ {old}) \cup {new} |->
             IF c = new THEN row[old] ELSE row[c]]
Rename(table, old, new) ==
    [i \in DOMAIN table |-> RenameRow(table[i], old, new)]

\* the order in which groupby lists its keys
KeyOrder == <<"10090", "9606", NULL>>

\* GroupBySize gone wrong: as for a categorical key, a row for every key, also
\* for the keys without a member
GroupBySizeAllKeys(table, dropna) ==
    LET keys == SelectSeq(KeyOrder, LAMBDA k : k # NULL \/ ~dropna)
    IN  [i \in DOMAIN keys |->
            [tax_id |-> keys[i],
             count |-> Cardinality({j \in DOMAIN table : table[j]["tax_id"] = keys[i]})]]

\* groupby("tax_id").size().reset_index(): one row per key with its number of
\* members; pandas, Dask and Dask-cuDF drop the rows whose key is null
\* (dropna=True), Spark's groupBy(...).count() keeps a group for null
GroupBySize(table, dropna) ==
    LET present(k) == \E i \in DOMAIN table : table[i]["tax_id"] = k
        keys == SelectSeq(KeyOrder, LAMBDA k : present(k) /\ (k # NULL \/ ~dropna))
    IN  [i \in DOMAIN keys |->
            [tax_id |-> keys[i],
             count |-> Cardinality({j \in DOMAIN table : table[j]["tax_id"] = keys[i]})]]

DropsNull(nb) == nb # SparkNb

\* one step of the sort: row r put into the sorted rows s, behind the rows
\* that do not come after it in the requested order
RECURSIVE InsertByCount(_, _, _)
InsertByCount(s, r, ascending) ==
    IF s = <<>> THEN <<r>>
    ELSE LET last == s[Len(s)]
             behind == IF ascending THEN last.count <= r.count
                       ELSE last.count >= r.count
         IN  IF behind THEN Append(s, r)
             ELSE Append(InsertByCount(SubSeq(s, 1, Len(s) - 1), r, ascending), last)

RECURSIVE SortByCount(_, _)
SortByCount(g, ascending) ==
    IF g = <<>> THEN <<>>
    ELSE InsertByCount(SortByCount(SubSeq(g, 1, Len(g) - 1), ascending),
                       g[Len(g)], ascending)

\* SortValues gone wrong: ascending=False forgotten
SortValuesAscending(g) ==
    {SortByCount([i \in DOMAIN g |-> g[p[i]]], TRUE) : p \in Permutations(DOMAIN g)}

\* sort_values("count", ascending=False) / sort(col("count").desc()): the rows
\* ordered by count, largest first.  The sorts used are not stable and the
\* partitions arrive in any order, so rows with equal counts may come out in
\* any order: the result is the sort of some arrangement of the rows.
SortValues(g) ==
    {SortByCount([i \in DOMAIN g |-> g[p[i]]], FALSE) : p \in Permutations(DOMAIN g)}

\* OutputFile gone wrong: the core count left out of the name
OutputFileWithoutCores(nb, size, format, cores) ==
    nb \o "_" \o size \o "_" \o format \o ".csv"

\* the name of the result file
OutputFile(nb, size, format, cores) ==
    nb \o "_" \o size \o "_" \o format \o "_" \o ToString(cores) \o ".csv"

\* ResultFrame gone wrong: the values of size and format in each other's place
ResultFrameSwapped(cores, time, size, format, name) ==
    [columns |-> <<"cores", "time", "size", "format", "dataframe">>,
     data |-> <<[cores |-> cores, time |-> time, size |-> format,
                 format |-> size, dataframe |-> name]>>]

\* the one-row frame pd.DataFrame([{...}]) written by to_csv(..., index=False)
ResultColumns == <<"cores", "time", "size", "format", "dataframe">>
ResultFrame(cores, time, size, format, name) ==
    [columns |-> ResultColumns,
     data |-> <<[cores |-> cores, time |-> time, size |-> size,
                 format |-> format, dataframe |-> name]>>]

\* ToCsv gone wrong: the directory is emptied before the file is written
ToCsvAlone(dir, name, frame, now) ==
    [f \in {name} |-> [frame |-> frame, mtime |-> now]]

\* to_csv(path): the file at path is created, or replaced when it exists
ToCsv(dir, name, frame, now) ==
    [f \in DOMAIN dir \cup {name} |->
        IF f = name THEN [frame |-> frame, mtime |-> now] ELSE dir[f]]


(***************************************************************************)
(* The initial state: no run has started, the kernel is empty.             *)
(***************************************************************************)
\* what a run of 1-FetchLocalData leaves behind: the steps it completed and
\* the exception that ended it, "" when it ran to its end
NoFetch == [steps |-> <<>>, error |-> ""]
Fetched(steps, e) == [steps |-> steps, error |-> e]

NoClient ==
    [state |-> "none", sized |-> FALSE, workers |-> 0, threads |-> 0,
     master |-> "", started |-> 0, closed |-> 0]

FreshKernel ==
    /\ ns = {}
    /\ n_cores = 0 /\ file_format = ""
    /\ DATA_DIR = "" /\ file_size = "" /\ filename = "" /\ start = 0 /\ end = 0
    /\ client = NoClient
    /\ genes = <<>> /\ groups = <<>> /\ lazy = FALSE
    /\ stdout = <<>> /\ error = "" /\ trace = <<>> /\ io = <<>>

\* environments: LOCAL_SCRATCH_DIR not set, set to a scratch directory, set
\* to the empty string
NoScratchDir == <<>>
ScratchDir(dir) == [v \in {"LOCAL_SCRATCH_DIR"} |-> dir]
Environments == {NoScratchDir, ScratchDir("/scratch/job_1"), ScratchDir("")}

NoResults ==
    /\ results_dir = FALSE
    /\ results = <<>>
    /\ clock = 0

\* ~/data holds the newer snapshot; DATA_DIR holds what an earlier fetch of the
\* older snapshot left there, or nothing
Init ==
    /\ environ = NoScratchDir
    /\ home = Snapshot2
    /\ tsv \in {NoFile, TsvOf(Snapshot1)}
    /\ parquet \in {NoFile, ParquetOf(Snapshot1)}
    /\ fetch = NoFetch
    /\ NoResults
    /\ runs = 0
    /\ notebook = "" /\ pc = "idle"
    /\ FreshKernel
    /\ results0 = <<>>
    /\ data0 = [tsv |-> tsv, parquet |-> parquet]
    /\ log = <<>>

(***************************************************************************)
(* The cells of a harness notebook, in the order of the notebook.  Pandas  *)
(* has no processing context and computes eagerly.  The cells that only    *)
(* display groups (query, head) change nothing and are left out.           *)
(***************************************************************************)
HasContext(nb) == nb # Pandas

\* Cells gone wrong: the timer is stopped before the context is shut down
CellsTimerStoppedEarly(nb) ==
    IF HasContext(nb)
    THEN <<"setup", "start", "context", "read", "process", "compute", "end",
           "close", "write", "print", "done">>
    ELSE <<"setup", "start", "read", "process", "end", "write", "print", "done">>

\* Cells gone wrong: the context is shut down before the result is computed
CellsCloseBeforeCompute(nb) ==
    IF HasContext(nb)
    THEN <<"setup", "start", "context", "read", "process", "close", "compute",
           "end", "write", "print", "done">>
    ELSE <<"setup", "start", "read", "process", "end", "write", "print", "done">>

Cells(nb) ==
    IF HasContext(nb)
    THEN <<"setup", "start", "context", "read", "process", "compute", "close",
           "end", "write", "print", "done">>
    ELSE <<"setup", "start", "read", "process", "end", "write", "print", "done">>

NextCell(nb, cell) ==
    LET cs == Cells(nb)
        i == CHOOSE j \in DOMAIN cs : cs[j] = cell
    IN  cs[i + 1]

\* the cell ran to its end: go on with the next one
Goto(cell) == pc' = NextCell(notebook, cell) /\ error' = error
\* Raise gone wrong: as under try/finally, a run with a started context goes
\* on with the shutdown cell
RaiseThenShutdown(e) ==
    /\ pc' = (IF client.state = "running" THEN "close" ELSE "failed")
    /\ error' = e

\* the cell raised: the run ends there
Raise(e) == pc' = "failed" /\ error' = e

\* papermill starts a fresh kernel on a notebook and injects the parameters
\* (the Pandas notebook has the file_format parameter only)
StartRun(nb, cores, format) ==
    /\ pc \in {"idle", "done", "failed"}
    /\ runs < MaxRuns
    /\ runs' = runs + 1
    /\ notebook' = nb
    /\ pc' = "setup"
    /\ ns' = IF HasContext(nb) THEN {"n_cores", "file_format"} ELSE {"file_format"}
    /\ n_cores' = cores
    /\ file_format' = format
    /\ DATA_DIR' = "" /\ file_size' = "" /\ filename' = "" /\ start' = 0 /\ end' = 0
    /\ client' = NoClient
    /\ genes' = <<>> /\ groups' = <<>> /\ lazy' = FALSE
    /\ stdout' = <<>> /\ error' = "" /\ trace' = <<>> /\ io' = <<>>
    /\ results0' = results
    /\ data0' = [tsv |-> tsv, parquet |-> parquet]
    /\ UNCHANGED <<environ, fetch, home, tsv, parquet, results_dir, results, clock, log>>

\* a call that opens or sizes the file at path: whether the filter was handed
\* to the call, and how many rows the call brought into the frame
Opened(fn, path, filters, rows) ==
    [fn |-> fn, path |-> path, filters |-> filters, rows |-> rows]

\* SetupCell gone wrong: the results directory is made before the size is taken
SetupCellMakedirsFirst ==
    /\ pc = "setup"
    /\ clock' = clock + 1
    /\ DATA_DIR' = Getenv(environ, "LOCAL_SCRATCH_DIR", "../data")
    /\ filename' = DataPath(DATA_DIR', "gene_info.tsv")
    /\ io' = Append(io, Opened("getsize", filename', FALSE, 0))
    /\ IF tsv.exists
       THEN /\ file_size' = FormatSize(tsv.size)
            /\ results_dir' = TRUE
            /\ ns' = ns \cup {"DATA_DIR", "filename", "file_size", "RESULTS_DIR"}
            /\ Goto("setup")
       ELSE /\ Raise("FileNotFoundError")
            /\ results_dir' = TRUE
            /\ ns' = ns \cup {"DATA_DIR", "filename", "RESULTS_DIR"}
            /\ UNCHANGED file_size
    /\ UNCHANGED <<environ, fetch, home, tsv, parquet, results, runs, paramVars, start, end,
                   client, genes, groups, lazy, stdout, trace, results0, data0, log>>

\* DATA_DIR, filename, file_size, RESULTS_DIR, os.makedirs(RESULTS_DIR)
SetupCell ==
    /\ pc = "setup"
    /\ clock' = clock + 1
    /\ DATA_DIR' = Getenv(environ, "LOCAL_SCRATCH_DIR", "../data")
    /\ filename' = DataPath(DATA_DIR', "gene_info.tsv")
    /\ io' = Append(io, Opened("getsize", filename', FALSE, 0))
    /\ IF tsv.exists
       THEN /\ file_size' = FormatSize(tsv.size)
            /\ results_dir' = TRUE
            /\ ns' = ns \cup {"DATA_DIR", "filename", "file_size", "RESULTS_DIR"}
            /\ Goto("setup")
       ELSE /\ Raise("FileNotFoundError")
            /\ ns' = ns \cup {"DATA_DIR", "filename"}
            /\ UNCHANGED <<file_size, results_dir>>
    /\ UNCHANGED <<environ, fetch, home, tsv, parquet, results, runs, paramVars, start, end,
                   client, genes, groups, lazy, stdout, trace, results0, data0, log>>

\* start = time.time()
StartTimer ==
    /\ pc = "start"
    /\ start' = clock
    /\ clock' = clock + 1
    /\ ns' = ns \cup {"start"}
    /\ trace' = Append(trace, "start_timer")
    /\ Goto("start")
    /\ UNCHANGED <<environ, fetch, home, tsv, parquet, results_dir, results, runs, paramVars,
                   DATA_DIR, file_size, filename, end, client, genes, groups, lazy,
                   stdout, results0, data0, log, io>>

\* Client(n_workers=n_cores, threads_per_worker=1) or Client();
\* SparkSession.builder.master(f"local[{n_cores}]")... or the default master
\* NewContext gone wrong: the test is n_cores >= 0
NewContextFromZero(nb, cores, now) ==
    IF cores >= 0
    THEN [state |-> "running", sized |-> TRUE, workers |-> cores,
          threads |-> IF nb = SparkNb THEN 0 ELSE 1,
          master |-> IF nb = SparkNb THEN "local[" \o ToString(cores) \o "]" ELSE "",
          started |-> now, closed |-> 0]
    ELSE [state |-> "running", sized |-> FALSE, workers |-> 0, threads |-> 0,
          master |-> "", started |-> now, closed |-> 0]

NewContext(nb, cores, now) ==
    IF cores > 0
    THEN [state |-> "running", sized |-> TRUE, workers |-> cores,
          threads |-> IF nb = SparkNb THEN 0 ELSE 1,
          master |-> IF nb = SparkNb THEN "local[" \o ToString(cores) \o "]" ELSE "",
          started |-> now, closed |-> 0]
    ELSE [state |-> "running", sized |-> FALSE, workers |-> 0, threads |-> 0,
          master |-> "", started |-> now, closed |-> 0]

ContextCell ==
    /\ pc = "context"
    /\ client' = NewContext(notebook, n_cores, clock)
    /\ clock' = clock + 1
    /\ ns' = ns \cup {"client"}
    /\ trace' = Append(trace, "init_context")
    /\ Goto("context")
    /\ UNCHANGED <<environ, fetch, home, tsv, parquet, results_dir, results, runs, paramVars,
                   DATA_DIR, file_size, filename, start, end, genes, groups, lazy,
                   stdout, results0, data0, log, io>>


\* what the read cell binds to genes when its read succeeds: csv is read whole
\* and filtered afterwards; parquet is filtered while it is loaded by pandas,
\* Dask and Dask-cuDF, and read whole and filtered afterwards by Spark; the
\* column #tax_id is renamed last
\* whether the read call is given the filter: filters=filters in the
\* read_parquet of pandas, Dask and Dask-cuDF
Pushdown(nb, format) == format = "parquet" /\ nb # SparkNb

\* the frame the read call returns
Load(nb, format) ==
    IF format = "csv" THEN ReadCsv(tsv)
    ELSE IF Pushdown(nb, format) THEN ReadParquetFiltered(parquet)
    ELSE ReadParquet(parquet)

ReadGenes(nb, format) ==
    LET loaded == Load(nb, format)
        filtered == IF Pushdown(nb, format) THEN loaded ELSE Query(loaded)
    IN  Rename(filtered, "#tax_id", "tax_id")

\* the name of the read call
ReadCall(format) == IF format = "csv" THEN "read_csv" ELSE "read_parquet"

\* InputExists gone wrong: only gene_info.tsv is looked for
InputExistsTsvOnly(format) == tsv.exists

\* the file the read cell opens, and whether it is there
InputName(format) == IF format = "csv" THEN "gene_info.tsv" ELSE "gene_info.parquet"
InputExists(format) == IF format = "csv" THEN tsv.exists ELSE parquet.exists

\* InvalidFormat gone wrong: the else branch binds an empty frame and goes on
InvalidFormatFallsThrough(out) ==
    /\ stdout' = out \o <<"invalid file format", "Filename: " \o filename>>
    /\ genes' = <<>>
    /\ ns' = ns \cup {"genes"}
    /\ Goto("read")
    /\ UNCHANGED <<filename, trace, io>>

\* what the else branch of the read cell does
InvalidFormat(out) ==
    /\ stdout' = out \o <<"invalid file format", "Filename: " \o filename>>
    /\ Raise("NameError")     \* genes.rename / genes.select: genes is not defined
    /\ UNCHANGED <<filename, genes, ns, trace, io>>

\* the read cell: read, filter, print the file name, rename the column
ReadCell ==
    /\ pc = "read"
    /\ clock' = clock + 1
    /\ IF file_format \in {"csv", "parquet"}
       THEN /\ filename' = DataPath(DATA_DIR, InputName(file_format))
            /\ IF InputExists(file_format)
               THEN /\ genes' = ReadGenes(notebook, file_format)
                    /\ io' = Append(io, Opened(ReadCall(file_format), filename',
                                               Pushdown(notebook, file_format),
                                               Len(Load(notebook, file_format))))
                    /\ ns' = ns \cup {"column_names", "filters", "genes"}
                    /\ stdout' = Append(stdout, "Filename: " \o filename')
                    /\ trace' = trace \o <<"read_filter", "rename">>
                    /\ Goto("read")
               ELSE /\ Raise("FileNotFoundError")
                    /\ ns' = ns \cup {"column_names", "filters"}
                    /\ io' = Append(io, Opened(ReadCall(file_format), filename',
                                               Pushdown(notebook, file_format), 0))
                    /\ UNCHANGED <<genes, stdout, trace>>
       ELSE InvalidFormat(stdout)
    /\ UNCHANGED <<environ, fetch, home, tsv, parquet, results_dir, results, runs, paramVars,
                   DATA_DIR, file_size, start, end, client, groups, lazy,
                   results0, data0, log>>

\* groupby, size, sort_values: pandas computes the sorted table at once, the
\* other engines only extend the plan
ProcessCell ==
    /\ pc = "process"
    /\ clock' = clock + 1
    /\ IF "genes" \in ns
       THEN /\ IF HasContext(notebook)
               THEN groups' = GroupBySize(genes, DropsNull(notebook)) /\ lazy' = TRUE
               ELSE groups' \in SortValues(GroupBySize(genes, DropsNull(notebook)))
                    /\ lazy' = FALSE
            /\ ns' = ns \cup {"groups"}
            /\ trace' = trace \o <<"group_count", "sort">>
            /\ Goto("process")
       ELSE /\ Raise("NameError")
            /\ UNCHANGED <<groups, lazy, ns, trace>>
    /\ UNCHANGED <<environ, fetch, home, tsv, parquet, results_dir, results, runs, paramVars,
                   DATA_DIR, file_size, filename, start, end, client, genes, stdout,
                   results0, data0, log, io>>

\* groups = groups.compute() / groups.toPandas(): the plan is executed and the
\* sorted table brought into memory
ComputeCell ==
    /\ pc = "compute"
    /\ clock' = clock + 1
    /\ groups' \in SortValues(groups)
    /\ lazy' = FALSE
    /\ trace' = Append(trace, "materialize")
    /\ Goto("compute")
    /\ UNCHANGED <<environ, fetch, home, tsv, parquet, results_dir, results, runs, paramVars,
                   ns, DATA_DIR, file_size, filename, start, end, client, genes, stdout,
                   results0, data0, log, io>>

\* client.close() / spark.stop()
CloseCell ==
    /\ pc = "close"
    /\ clock' = clock + 1
    /\ client' = [client EXCEPT !.state = "closed", !.closed = clock']
    /\ trace' = Append(trace, "shutdown_context")
    /\ Goto("close")
    /\ UNCHANGED <<environ, fetch, home, tsv, parquet, results_dir, results, runs, paramVars,
                   ns, DATA_DIR, file_size, filename, start, end, genes, groups, lazy,
                   stdout, results0, data0, log, io>>

\* end = time.time()
EndTimer ==
    /\ pc = "end"
    /\ end' = clock
    /\ clock' = clock + 1
    /\ ns' = ns \cup {"end"}
    /\ trace' = Append(trace, "stop_timer")
    /\ Goto("end")
    /\ UNCHANGED <<environ, fetch, home, tsv, parquet, results_dir, results, runs, paramVars,
                   DATA_DIR, file_size, filename, start, client, genes, groups, lazy,
                   stdout, results0, data0, log, io>>

\* WritesResult gone wrong: the guard is n_cores != 0
WritesResultNonZero(nb, cores) == HasContext(nb) => cores # 0

\* WritesResult gone wrong: the guard is n_cores > 1
WritesResultAboveOne(nb, cores) == HasContext(nb) => cores > 1

\* whether the result-writing cell writes: always in the Pandas notebook,
\* under "if n_cores > 0" in the others
WritesResult(nb, cores) == HasContext(nb) => cores > 0

\* CoresWritten gone wrong: the n_cores of the other notebooks in the Pandas
\* notebook as well
CoresWrittenFromParameter(nb, cores) == cores

\* CoresWritten gone wrong: the literal 1 of the Pandas notebook in every notebook
CoresWrittenAlwaysOne(nb, cores) == 1

\* the cores field and file name component: the literal 1 in the Pandas notebook
CoresWritten(nb, cores) == IF HasContext(nb) THEN cores ELSE 1

\* the result-writing cell
WriteCell ==
    /\ pc = "write"
    /\ clock' = clock + 1
    /\ IF WritesResult(notebook, n_cores)
       THEN LET cores == CoresWritten(notebook, n_cores)
                df == ResultFrame(cores, end - start, file_size, file_format,
                                  EngineName(notebook))
                output_file == OutputFile(notebook, file_size, file_format, cores)
            IN  IF results_dir
                THEN /\ results' = ToCsv(results, output_file, df, clock)
                     /\ log' = Append(log, [notebook |-> notebook, size |-> file_size,
                                            format |-> file_format, cores |-> cores,
                                            output_file |-> output_file])
                     /\ ns' = ns \cup {"df", "output_file"}
                     /\ trace' = Append(trace, "write_result")
                     /\ Goto("write")
                ELSE /\ Raise("OSError")
                     /\ ns' = ns \cup {"df", "output_file"}
                     /\ UNCHANGED <<results, trace, log>>
       ELSE /\ Goto("write")
            /\ UNCHANGED <<results, ns, trace, log>>
    /\ UNCHANGED <<environ, fetch, home, tsv, parquet, results_dir, runs, paramVars, dataVars,
                   stdout, results0, data0, io>>

\* print(f"Dask: {end - start:.1f} sec.")
PrintCell ==
    /\ pc = "print"
    /\ clock' = clock + 1
    /\ stdout' = Append(stdout, EngineName(notebook) \o ": "
                                \o ToString(end - start) \o " sec.")
    /\ Goto("print")
    /\ UNCHANGED <<environ, fetch, home, tsv, parquet, results_dir, results, runs, paramVars,
                   ns, dataVars, trace, results0, data0, log, io>>

\* FetchLocalData gone wrong: copytree(..., dirs_exist_ok=True) copies over an
\* existing gene_info.parquet
FetchLocalDataOverwrites ==
    /\ pc \in {"idle", "done", "failed"}
    /\ IF Getenv(environ, "LOCAL_SCRATCH_DIR", "../data") = ""
       THEN /\ fetch' = Fetched(<<>>, "FileNotFoundError")
            /\ UNCHANGED <<tsv, parquet>>
       ELSE /\ tsv' = TsvOf(home)
            /\ parquet' = ParquetOf(home)
            /\ fetch' = Fetched(<<"makedirs", "unzip", "copytree">>, "")
    /\ UNCHANGED <<environ, home, results_dir, results, clock, runs, kernelVars>>

\* 1-FetchLocalData run between two harness runs: os.makedirs(DATA_DIR) raises
\* when DATA_DIR is the empty string; gene_info.gz is unzipped over
\* gene_info.tsv; copytree copies the parquet directory and raises when
\* DATA_DIR/gene_info.parquet exists already
FetchLocalData ==
    /\ pc \in {"idle", "done", "failed"}
    /\ IF Getenv(environ, "LOCAL_SCRATCH_DIR", "../data") = ""
       THEN /\ fetch' = Fetched(<<>>, "FileNotFoundError")
            /\ UNCHANGED <<tsv, parquet>>
       ELSE /\ tsv' = TsvOf(home)
            /\ IF parquet.exists
               THEN /\ fetch' = Fetched(<<"makedirs", "unzip">>, "FileExistsError")
                    /\ parquet' = parquet
               ELSE /\ fetch' = Fetched(<<"makedirs", "unzip", "copytree">>, "")
                    /\ parquet' = ParquetOf(home)
    /\ UNCHANGED <<environ, home, results_dir, results, clock, runs, kernelVars>>

Next ==
    \/ \E nb \in Harnesses, cores \in CoreCounts, format \in FileFormats :
          /\ ~HasContext(nb) => cores = 0
          /\ StartRun(nb, cores, format)
    \/ SetupCell
    \/ StartTimer
    \/ ContextCell
    \/ ReadCell
    \/ ProcessCell
    \/ ComputeCell
    \/ CloseCell
    \/ EndTimer
    \/ WriteCell
    \/ PrintCell
    \/ FetchLocalData

Spec == Init /\ [][Next]_vars

\* a started run executes its cells one after the other until the last cell
\* has run or a cell raises
RunStep ==
    \/ SetupCell \/ StartTimer \/ ContextCell \/ ReadCell \/ ProcessCell
    \/ ComputeCell \/ CloseCell \/ EndTimer \/ WriteCell \/ PrintCell

FairSpec == Spec /\ WF_vars(RunStep)

(***************************************************************************)
(* The notebooks with an engine that may fail while it executes the plan:  *)
(* compute() / toPandas() raises, nothing is brought into memory.          *)
(***************************************************************************)
ComputeRaises ==
    /\ pc = "compute"
    /\ clock' = clock + 1
    /\ Raise("EngineError")
    /\ UNCHANGED <<environ, fetch, home, tsv, parquet, results_dir, results, runs, paramVars,
                   ns, dataVars, stdout, trace, results0, data0, log, io>>

NextFaults == Next \/ ComputeRaises

SpecFaults == Init /\ [][NextFaults]_vars

(***************************************************************************)
(* The same notebooks run once on every input table of up to MaxRows rows: *)
(* DATA_DIR holds the table as gene_info.tsv and as gene_info.parquet.     *)
(***************************************************************************)
Generated(t) == [size |-> 652, psize |-> 213, rows |-> t]

InitData ==
    /\ \E t \in AllTables :
          /\ home = Generated(t)
          /\ tsv = TsvOf(home)
          /\ parquet = ParquetOf(home)
    /\ environ = NoScratchDir
    /\ fetch = NoFetch
    /\ NoResults
    /\ runs = MaxRuns - 1
    /\ notebook = "" /\ pc = "idle"
    /\ FreshKernel
    /\ results0 = <<>>
    /\ data0 = [tsv |-> tsv, parquet |-> parquet]
    /\ log = <<>>

SpecData == InitData /\ [][Next]_vars

(***************************************************************************)
(* The same notebooks run in every environment: LOCAL_SCRATCH_DIR not set, *)
(* set to a directory, set to the empty string.                            *)
(***************************************************************************)
InitEnv ==
    /\ environ \in Environments
    /\ home = Snapshot2
    /\ tsv \in {NoFile, TsvOf(Snapshot1)}
    /\ parquet \in {NoFile, ParquetOf(Snapshot1)}
    /\ fetch = NoFetch
    /\ NoResults
    /\ runs = MaxRuns - 1
    /\ notebook = "" /\ pc = "idle"
    /\ FreshKernel
    /\ results0 = <<>>
    /\ data0 = [tsv |-> tsv, parquet |-> parquet]
    /\ log = <<>>

SpecEnv == InitEnv /\ [][Next]_vars


(***************************************************************************)
(* Vocabulary of the properties.                                           *)
(***************************************************************************)
InRun == pc # "idle"
Finished == pc = "done"
Failed == pc = "failed"
ValidFormat == file_format \in {"csv", "parquet"}
\* the file the run's format names was in DATA_DIR when the run started
FormatInputPresent ==
    \/ file_format = "csv" /\ data0.tsv.exists
    \/ file_format = "parquet" /\ data0.parquet.exists
\* every file the run opens was there: gene_info.tsv (its size is recorded in
\* every run) and the file the format names
InputsPresent == data0.tsv.exists /\ FormatInputPresent
\* the run has a core count and it is positive / zero
CoresPositive == notebook # Pandas /\ n_cores > 0
CoresZero == notebook # Pandas /\ n_cores = 0

\* the files of RESULTS_DIR this run has created, replaced or removed
Changed ==
    {f \in DOMAIN results \cup DOMAIN results0 :
        \/ f \notin DOMAIN results
        \/ f \notin DOMAIN results0
        \/ results[f] # results0[f]}
\* the result rows this run has written
RECURSIVE Occurrences(_, _)
Occurrences(seq, x) ==
    IF seq = <<>> THEN 0
    ELSE Occurrences(Tail(seq), x) + (IF Head(seq) = x THEN 1 ELSE 0)
RowsWritten == Occurrences(trace, "write_result")
WroteOneRow ==
    /\ RowsWritten = 1
    /\ Cardinality(Changed) = 1
    /\ \A f \in Changed : f \in DOMAIN results /\ Len(results[f].frame.data) = 1
WroteNothing == RowsWritten = 0 /\ results = results0

(***************************************************************************)
(* C1.  The claim: every run with a non-negative core count (0 included),  *)
(* file_format csv or parquet and its input files present completes       *)
(* having produced exactly one result row.                                 *)
(***************************************************************************)
\* C1 as claimed: such a run never fails and, once its last cell has run, has
\* written exactly one result row
C1_EveryValidRunWritesOneRow ==
    (InRun /\ n_cores >= 0 /\ ValidFormat /\ InputsPresent)
        => (~Failed /\ (Finished => WroteOneRow))

\* the position of a cell in the run's notebook
CellIndex(cell) ==
    LET cs == Cells(notebook) IN CHOOSE i \in DOMAIN cs : cs[i] = cell

\* C1 as amended: a run with file_format csv or parquet and its input files
\* present never fails and runs to its last cell (until then a cell is ready to
\* run, and every step of a run moves on to the next cell of the notebook); a
\* Pandas run and a run with n_cores > 0 has then written exactly one result
\* row, a run with n_cores = 0 has written none
C1_ValidRunCompletes ==
    /\ [](InRun /\ n_cores >= 0 /\ ValidFormat /\ InputsPresent
            => /\ ~Failed
               /\ Finished \/ ENABLED RunStep
               /\ Finished /\ (notebook = Pandas \/ CoresPositive) => WroteOneRow
               /\ Finished /\ CoresZero => WroteNothing)
    /\ [][InRun /\ ~Finished /\ ~Failed
            => pc' = "failed" \/ CellIndex(pc') = CellIndex(pc) + 1]_vars

\* a Dask run with two cores on parquet has completed and written its row
C1_Witness ==
    /\ Finished /\ notebook = Dask /\ n_cores = 2 /\ file_format = "parquet"
    /\ WroteOneRow


(***************************************************************************)
(* C2.  The claim: results accumulate append-only: the results store holds *)
(* one row per completed run, and a later run never removes or replaces a  *)
(* row an earlier run wrote, not even an earlier run with the same engine, *)
(* size, format and core count.                                            *)
(***************************************************************************)
RECURSIVE TotalRows(_, _)
TotalRows(dir, names) ==
    IF names = {} THEN 0
    ELSE LET f == CHOOSE n \in names : TRUE
         IN  Len(dir[f].frame.data) + TotalRows(dir, names \ {f})

\* the parameters that a result row records, without the measured time
KeyOfRow(row) == <<row.dataframe, row.size, row.format, row.cores>>
KeyOfWrite(w) == <<EngineName(w.notebook), w.size, w.format, w.cores>>
KeysWritten == {KeyOfWrite(log[i]) : i \in DOMAIN log}

\* C2 as claimed: the store holds as many rows as there were runs that wrote
\* their row
C2_OneRowPerRun == TotalRows(results, DOMAIN results) = Len(log)

\* C2 as amended: the store holds one file with one row for every distinct
\* (engine, size, format, cores) among the runs that wrote a row; no step
\* removes a file, and a file changes only when a run with the same engine,
\* size, format and cores writes its row over it
C2_OneRowPerKey ==
    /\ [](/\ \A f \in DOMAIN results : Len(results[f].frame.data) = 1
          /\ {KeyOfRow(results[f].frame.data[1]) : f \in DOMAIN results} = KeysWritten
          /\ Cardinality(DOMAIN results) = Cardinality(KeysWritten))
    /\ [][\A f \in DOMAIN results :
            /\ f \in DOMAIN results'
            /\ results'[f] # results[f] =>
                 /\ pc = "write"
                 /\ KeyOfRow(results'[f].frame.data[1])
                      = KeyOfRow(results[f].frame.data[1])]_vars

\* a second run with the parameters of the first has written over its row
C2_Witness ==
    /\ Len(log) = 2 /\ KeyOfWrite(log[1]) = KeyOfWrite(log[2])
    /\ Cardinality(DOMAIN results) = 1
    /\ \A f \in DOMAIN results : f \in DOMAIN results0 /\ results[f] # results0[f]

(***************************************************************************)
(* C3.  The claim: with a file_format that is neither csv nor parquet the  *)
(* harness reports the value, reads no input file, and no exception is     *)
(* raised by the read step or any step after it.                           *)
(***************************************************************************)
PastSetup == pc \notin {"idle", "setup"} /\ "file_size" \in ns
PastRead == PastSetup /\ pc \notin {"start", "context", "read"}

\* C3 as claimed: once setup has succeeded, a run with an unsupported format
\* reads nothing, never ends with an exception, and has printed the report
\* when the read cell is over
C3_InvalidFormatNotFatal ==
    (InRun /\ ~ValidFormat /\ PastSetup)
        => /\ Occurrences(trace, "read_filter") = 0
           /\ ~Failed
           /\ PastRead => \E i \in DOMAIN stdout : stdout[i] = "invalid file format"

(***************************************************************************)
(* C4.  The claim: with an unsupported file_format the run is aborted      *)
(* without writing a result: it creates and modifies no file of the        *)
(* results directory, for every engine and every core count.               *)
(***************************************************************************)
\* C4: a run with an unsupported format never gets past its read cell and
\* leaves the files of the results directory as they were
C4_InvalidFormatWritesNothing ==
    (InRun /\ ~ValidFormat)
        => /\ results = results0
           /\ RowsWritten = 0
           /\ pc \in {"setup", "start", "context", "read", "failed"}

\* a run with format orc and a positive core count has ended in the read
\* cell, with an earlier run's result still in place
C4_Witness ==
    /\ Failed /\ file_format = "orc" /\ CoresPositive /\ error = "NameError"
    /\ DOMAIN results0 # {} /\ results = results0

(***************************************************************************)
(* C5.  The claim: when the run's input file is missing the run ends with  *)
(* an uncaught error, nothing is retried or recovered, and no result row   *)
(* is written.                                                             *)
(***************************************************************************)
NoStepTwice == \A i, j \in DOMAIN trace : trace[i] = trace[j] => i = j

\* C5: a run whose input file is missing never gets past its read cell, reads
\* nothing, writes nothing, executes no step twice, and when it has ended it
\* has ended with FileNotFoundError and executes no further cell
C5_MissingInputIsFatal ==
    (InRun /\ ValidFormat /\ ~FormatInputPresent)
        => /\ results = results0
           /\ RowsWritten = 0
           /\ Occurrences(trace, "read_filter") = 0
           /\ NoStepTwice
           /\ pc \in {"setup", "start", "context", "read", "failed"}
           /\ Failed => error = "FileNotFoundError" /\ ~ENABLED RunStep

\* a parquet run with gene_info.tsv present and gene_info.parquet missing has
\* started its context and ended in the read cell
C5_Witness ==
    /\ Failed /\ error = "FileNotFoundError" /\ file_format = "parquet"
    /\ data0.tsv.exists /\ ~data0.parquet.exists
    /\ client.state = "running"

(***************************************************************************)
(* C6.  The claim: in every successful run the steps start timer,          *)
(* initialize context, read and filter, rename, group/count, sort,         *)
(* materialize, shut down context, stop timer, write result row occur once *)
(* each in this order; the measured interval contains engine startup and   *)
(* shutdown and the row is written after the timer is stopped.             *)
(***************************************************************************)
FullSteps ==
    <<"start_timer", "init_context", "read_filter", "rename", "group_count",
      "sort", "materialize", "shutdown_context", "stop_timer", "write_result">>

IsPrefix(a, b) == Len(a) <= Len(b) /\ a = SubSeq(b, 1, Len(a))

\* the context was started and shut down between start and end
ContextInsideInterval ==
    /\ client.state = "closed"
    /\ start <= client.started
    /\ client.started < client.closed
    /\ client.closed <= end

\* the files this run wrote were written after the timer was stopped
WrittenAfterStop == \A f \in Changed : f \in DOMAIN results /\ results[f].mtime >= end

\* C6 as claimed: every run whose last cell has run executed all ten steps
\* once each in the order given, with the context inside the interval
C6_AllStepsInEveryRun ==
    Finished => trace = FullSteps /\ ContextInsideInterval /\ WrittenAfterStop

\* the steps of the run's notebook: Pandas has no context to initialize or
\* shut down and nothing to materialize; the row is written by Pandas and when
\* n_cores > 0
StepsOf(nb, cores) ==
    SelectSeq(FullSteps,
              LAMBDA st :
                  /\ st \in {"init_context", "materialize", "shutdown_context"}
                        => nb # Pandas
                  /\ st = "write_result" => nb = Pandas \/ cores > 0)

\* C6 as amended: a Dask, Spark or Dask-cuDF run with n_cores > 0 executes the
\* ten steps once each in the order given, and the interval [start, end]
\* contains the start and the shutdown of the context; a run with n_cores <= 0
\* executes the same steps without the write; a Pandas run executes them
\* without the three context steps; a row is written only after the timer is
\* stopped; no run executes a step out of this order
C6_StepsInOrder ==
    InRun => /\ IsPrefix(trace, StepsOf(notebook, n_cores))
             /\ Finished => /\ trace = StepsOf(notebook, n_cores)
                            /\ notebook # Pandas => ContextInsideInterval
                            /\ WrittenAfterStop

\* a Spark run with one core has executed all ten steps
C6_Witness ==
    /\ Finished /\ notebook = SparkNb /\ n_cores = 1 /\ trace = FullSteps
    /\ Cardinality(Changed) = 1


(***************************************************************************)
(* Vocabulary of the properties of the group table.                        *)
(***************************************************************************)
\* the file the run read, as it was when the run started
InputFile == IF file_format = "csv" THEN data0.tsv ELSE data0.parquet
\* the input rows that pass the filter type_of_gene == 'protein-coding'
FilteredRows ==
    {i \in DOMAIN InputFile.rows :
        InputFile.rows[i]["type_of_gene"] = "protein-coding"}
\* groups is the in-memory table: computed by pandas, or materialized by
\* compute() / toPandas()
Materialized == InRun /\ "groups" \in ns /\ ~lazy

RECURSIVE SumCounts(_)
SumCounts(g) == IF g = <<>> THEN 0 ELSE Head(g).count + SumCounts(Tail(g))
\* the count the table reports for a taxonomy id, 0 when it has no row for it
CountOf(g, t) == SumCounts(SelectSeq(g, LAMBDA r : r.tax_id = t))

(***************************************************************************)
(* C7.  The claim: for every input table the counts of the group table     *)
(* sum to the number of rows that passed the filter, also when some of     *)
(* these rows have no taxonomy id, for each engine.                        *)
(***************************************************************************)
\* C7 as claimed: the counts of the in-memory group table sum to the number of
\* filtered input rows
C7_CountsSumToFilteredRows ==
    Materialized => SumCounts(groups) = Cardinality(FilteredRows)

(***************************************************************************)
(* C8.  The claim: the count reported for a taxonomy id equals the number  *)
(* of input rows that are protein-coding and have that taxonomy id, for    *)
(* every engine and both file formats.                                     *)
(***************************************************************************)
\* C8: for every taxonomy id, the count in the in-memory group table is the
\* number of protein-coding input rows with that id
C8_CountMatchesReference ==
    Materialized =>
        \A t \in TaxIds :
            CountOf(groups, t)
                = Cardinality({i \in FilteredRows : InputFile.rows[i]["#tax_id"] = t})

\* Dask-cuDF on parquet reports 2 for 9606 on an input that also holds a
\* 9606 row of another gene type
C8_Witness ==
    /\ Materialized /\ notebook = DaskCuda /\ file_format = "parquet"
    /\ CountOf(groups, "9606") = 2
    /\ \E i \in DOMAIN InputFile.rows :
          InputFile.rows[i] = Row("ncRNA", "9606")

(***************************************************************************)
(* C9.  The claim: in the materialized group table the count column is     *)
(* non-increasing from the first row to the last, for every input and      *)
(* every engine.                                                           *)
(***************************************************************************)
\* C9: no row of the in-memory group table has a smaller count than a row
\* after it
C9_CountsNonIncreasing ==
    Materialized =>
        \A i, j \in DOMAIN groups : i < j => groups[i].count >= groups[j].count

\* the table lists 9606 with two members before 10090 with one, against the
\* order of the keys
C9_Witness ==
    /\ Materialized /\ Len(groups) = 2
    /\ groups[1] = [tax_id |-> "9606", count |-> 2]
    /\ groups[2] = [tax_id |-> "10090", count |-> 1]

(***************************************************************************)
(* C10.  The claim: the result file name encodes the run's parameters: two *)
(* runs of one engine with the same format, cores and size get the same    *)
(* name, two that differ in format, cores or size string get different     *)
(* names.                                                                  *)
(***************************************************************************)
\* C10: among the rows written by one notebook, two have the same file name
\* exactly when they have the same size string, format and core count
C10_NameEncodesParameters ==
    \A i, j \in DOMAIN log :
        log[i].notebook = log[j].notebook =>
            (log[i].output_file = log[j].output_file
                <=> /\ log[i].size = log[j].size
                    /\ log[i].format = log[j].format
                    /\ log[i].cores = log[j].cores)

\* two runs of one notebook that differ only in the size string have written
\* two files
C10_Witness ==
    /\ Len(log) = 2 /\ log[1].notebook = log[2].notebook
    /\ log[1].format = log[2].format /\ log[1].cores = log[2].cores
    /\ log[1].size # log[2].size
    /\ log[1].output_file # log[2].output_file
    /\ {log[1].output_file, log[2].output_file} = DOMAIN results

(***************************************************************************)
(* C11.  The claim: each written result is a CSV with the columns cores,   *)
(* time, size, format, dataframe in that order and one data row, stored    *)
(* under a name of the form {engine}_{size}_{format}_{cores}.csv whose     *)
(* size, format and cores components are the values of the row, with cores *)
(* the configured core count, format the configured file_format and time   *)
(* end - start.                                                            *)
(***************************************************************************)
\* the name that the values of a row spell, for the notebook of its engine
NamesOfRow(row) ==
    {nb \o "_" \o row.size \o "_" \o row.format \o "_" \o ToString(row.cores) \o ".csv" :
        nb \in {h \in Harnesses : EngineName(h) = row.dataframe}}

\* C11: every file of the results directory has the five columns in order and
\* one row and is named by its row's size, format and cores; the row a run
\* wrote holds the run's core count (1 for Pandas, which has none to
\* configure), its file_format, its file_size and end - start
C11_ResultFileMatchesRow ==
    /\ \A f \in DOMAIN results :
          LET frame == results[f].frame
          IN  /\ frame.columns = <<"cores", "time", "size", "format", "dataframe">>
              /\ Len(frame.data) = 1
              /\ DOMAIN frame.data[1] = {frame.columns[i] : i \in DOMAIN frame.columns}
              /\ f \in NamesOfRow(frame.data[1])
    /\ InRun =>
          \A f \in Changed :
              /\ f \in DOMAIN results
              /\ LET row == results[f].frame.data[1]
                 IN  /\ row.cores = (IF notebook = Pandas THEN 1 ELSE n_cores)
                     /\ row.format = file_format
                     /\ row.size = file_size
                     /\ row.time = end - start
                     /\ "end" \in ns /\ "start" \in ns

\* a Spark run with two cores on csv has written 4-SparkDataframe_6.5_csv_2.csv
\* with the time it measured
C11_Witness ==
    /\ Finished /\ notebook = SparkNb /\ n_cores = 2 /\ file_format = "csv"
    /\ Changed = {"4-SparkDataframe_6.5_csv_2.csv"}
    /\ LET row == results["4-SparkDataframe_6.5_csv_2.csv"].frame.data[1]
       IN  row.time = end - start /\ row.time > 0 /\ row.cores = 2

(***************************************************************************)
(* C12.  The claim: the size field of a result row is the size in GB of    *)
(* the input the run read: of gene_info.tsv for a csv run, of              *)
(* gene_info.parquet for a parquet run.                                    *)
(***************************************************************************)
\* C12 as claimed: the row a run wrote holds the size of the file its format
\* names, as that file was when the run started
C12_SizeIsOfInputRead ==
    InRun =>
        \A f \in Changed :
            f \in DOMAIN results
                => results[f].frame.data[1].size = FormatSize(InputFile.size)

(***************************************************************************)
(* C13.  The claim: the processing context is sized to the core count:     *)
(* with n_cores > 0 it has exactly n_cores workers (Dask, Dask-cuDF:       *)
(* n_workers = n_cores with one thread each; Spark: master                 *)
(* local[n_cores]), with n_cores = 0 it is the engine's default.           *)
(***************************************************************************)
\* C13: once the context cell has run, the context has n_cores workers when
\* n_cores > 0 (one thread per worker for Dask and Dask-cuDF, the master
\* local[n_cores] for Spark) and is the engine's default, with no size
\* given, when n_cores = 0
C13_ContextSizedToCores ==
    (InRun /\ "client" \in ns) =>
        /\ n_cores > 0 =>
              /\ client.sized /\ client.workers = n_cores
              /\ notebook \in {Dask, DaskCuda} => client.threads = 1 /\ client.master = ""
              /\ notebook = SparkNb => client.master = "local[" \o ToString(n_cores) \o "]"
        /\ n_cores = 0 =>
              ~client.sized /\ client.workers = 0 /\ client.threads = 0 /\ client.master = ""

\* a Spark session with the master local[2] is running
C13_Witness ==
    /\ InRun /\ notebook = SparkNb /\ n_cores = 2
    /\ client.state = "running" /\ client.master = "local[2]" /\ client.workers = 2

(***************************************************************************)
(* C14.  The claim: the filter for the one category value is applied at    *)
(* load time for parquet and after load for csv, and the two paths are     *)
(* equivalent: for csv and parquet inputs holding the same rows, the rows  *)
(* that reach grouping are exactly those with type_of_gene ==              *)
(* 'protein-coding' and the group/count table is the same for both         *)
(* formats.                                                                *)
(***************************************************************************)
\* the read call of the run
ReadOfRun == io[Len(io)]
OtherFormat == IF file_format = "csv" THEN "parquet" ELSE "csv"
SetOf(seq) == {seq[i] : i \in DOMAIN seq}

\* C14: the csv read call gets no filter and returns every row of the file;
\* the parquet read call of pandas, Dask and Dask-cuDF gets the filter and
\* returns the protein-coding rows only; in both formats and for every engine
\* the frame that reaches grouping holds exactly the protein-coding rows of
\* the input, and the group table is the one the other format's path gives
C14_FilterPathsEquivalent ==
    (InRun /\ "genes" \in ns) =>
        /\ file_format = "csv" =>
              /\ ReadOfRun.fn = "read_csv" /\ ~ReadOfRun.filters
              /\ ReadOfRun.rows = Len(InputFile.rows)
        /\ file_format = "parquet" /\ notebook # SparkNb =>
              /\ ReadOfRun.fn = "read_parquet" /\ ReadOfRun.filters
              /\ ReadOfRun.rows = Cardinality(FilteredRows)
        /\ Len(genes) = Cardinality(FilteredRows)
        /\ \A i \in DOMAIN genes : genes[i]["type_of_gene"] = "protein-coding"
        /\ \A t \in TaxIds \cup {NULL} :
              Cardinality({i \in DOMAIN genes : genes[i]["tax_id"] = t})
                = Cardinality({i \in FilteredRows : InputFile.rows[i]["#tax_id"] = t})
        /\ data0.tsv.rows = data0.parquet.rows /\ Materialized =>
              SetOf(groups) = SetOf(GroupBySize(ReadGenes(notebook, OtherFormat),
                                                DropsNull(notebook)))

\* a pandas run on parquet has loaded two of the three rows of the file and
\* grouped them
C14_Witness ==
    /\ Materialized /\ notebook = Pandas /\ file_format = "parquet"
    /\ ReadOfRun.filters /\ ReadOfRun.rows = 2 /\ Len(InputFile.rows) = 3
    /\ Len(groups) = 2

(***************************************************************************)
(* C15.  The claim: the harness is single-threaded and blocks on exactly   *)
(* one materialization call per run: in every successful run there is      *)
(* exactly one call that turns the lazy result into an in-memory table     *)
(* (compute / toPandas), after grouping and sorting are defined and before *)
(* the context is shut down.                                               *)
(***************************************************************************)
Before(a, b) ==
    \E i, j \in DOMAIN trace : i < j /\ trace[i] = a /\ trace[j] = b

\* C15 as claimed: every run whose last cell has run has materialized exactly
\* once, after the sort was defined and before the shutdown
C15_OneMaterializationInEveryRun ==
    Finished => /\ Occurrences(trace, "materialize") = 1
                /\ Before("sort", "materialize")
                /\ Before("materialize", "shutdown_context")

\* C15 as amended: a Dask, Spark or Dask-cuDF run materializes at most once,
\* and exactly once when its last cell has run; until then the group table is
\* lazy, afterwards it is in memory; the call comes after the sort was defined
\* and the context is shut down only after it; the cell after the call starts
\* only when the table is in memory.  A Pandas run makes no such call: its
\* group table is in memory as soon as it is defined
C15_OneBlockingMaterialization ==
    /\ [](InRun =>
            /\ Occurrences(trace, "materialize") <= 1
            /\ notebook # Pandas =>
                  /\ Finished => Occurrences(trace, "materialize") = 1
                  /\ Occurrences(trace, "materialize") = 1 =>
                        Before("sort", "materialize") /\ ~lazy
                  /\ "groups" \in ns /\ Occurrences(trace, "materialize") = 0 => lazy
                  /\ Occurrences(trace, "shutdown_context") = 1 =>
                        Before("materialize", "shutdown_context")
            /\ notebook = Pandas =>
                  Occurrences(trace, "materialize") = 0 /\ ~lazy)
    /\ [][pc = "compute" => ~lazy' /\ pc' = "close"]_vars

\* a Dask run has computed its table once and closed its client afterwards
C15_Witness ==
    /\ Finished /\ notebook = Dask /\ Occurrences(trace, "materialize") = 1
    /\ Before("materialize", "shutdown_context") /\ client.state = "closed"

(***************************************************************************)
(* C16.  The claim: the data directory is the value of the                 *)
(* LOCAL_SCRATCH_DIR environment variable when it is set and "../data"     *)
(* otherwise, and every input path a harness reads (gene_info.tsv,         *)
(* gene_info.parquet) is located directly under that directory.            *)
(***************************************************************************)
\* the directory the claim names, and the path of a file directly under it
\* (under the empty string, the working directory, the bare file name)
ClaimedDataDir ==
    IF "LOCAL_SCRATCH_DIR" \in DOMAIN environ
    THEN environ["LOCAL_SCRATCH_DIR"] ELSE "../data"
DirectlyUnder(dir, name) == IF dir = "" THEN name ELSE dir \o "/" \o name

\* C16: once the setup cell has run, DATA_DIR is the value of
\* LOCAL_SCRATCH_DIR when the environment has it and "../data" otherwise;
\* getsize and read_csv are called on gene_info.tsv and read_parquet on
\* gene_info.parquet directly under that directory, and filename is never
\* another path
C16_InputsUnderDataDir ==
    InRun =>
        /\ "DATA_DIR" \in ns => DATA_DIR = ClaimedDataDir
        /\ "filename" \in ns =>
              filename \in {DirectlyUnder(ClaimedDataDir, "gene_info.tsv"),
                            DirectlyUnder(ClaimedDataDir, "gene_info.parquet")}
        /\ \A i \in DOMAIN io :
              /\ io[i].fn \in {"getsize", "read_csv"} =>
                    io[i].path = DirectlyUnder(ClaimedDataDir, "gene_info.tsv")
              /\ io[i].fn = "read_parquet" =>
                    io[i].path = DirectlyUnder(ClaimedDataDir, "gene_info.parquet")
              /\ io[i].fn \in {"getsize", "read_csv", "read_parquet"}

\* with LOCAL_SCRATCH_DIR=/scratch/job_1 a run has read
\* /scratch/job_1/gene_info.parquet
C16_Witness ==
    /\ environ = ScratchDir("/scratch/job_1") /\ InRun /\ "genes" \in ns
    /\ Len(io) = 2 /\ io[1].path = "/scratch/job_1/gene_info.tsv"
    /\ io[2].fn = "read_parquet" /\ io[2].path = "/scratch/job_1/gene_info.parquet"

(***************************************************************************)
(* C17.  The claim: context shutdown is reached only on the success path:  *)
(* in a Dask, Spark or Dask-cuDF run that fails after the context was      *)
(* started the shutdown step is never executed, so the run ends with the   *)
(* context still started; in a successful run the context is started       *)
(* exactly once and shut down exactly once.                                *)
(***************************************************************************)
\* C17: a context is started and shut down at most once in a run, and is
\* closed exactly when the shutdown step was executed; in a run in which a
\* cell raised after the context was started the shutdown step is not
\* executed, the context stays running and no cell runs any more; a run whose
\* last cell has run started its context once and shut it down once, in this
\* order
C17_ShutdownOnlyOnSuccess ==
    /\ [](InRun /\ notebook # Pandas =>
            /\ Occurrences(trace, "init_context") <= 1
            /\ Occurrences(trace, "shutdown_context") <= 1
            /\ client.state = "closed" <=> Occurrences(trace, "shutdown_context") = 1
            /\ error # "" /\ Occurrences(trace, "init_context") = 1 =>
                  /\ Failed /\ ~ENABLED RunStep
                  /\ Occurrences(trace, "shutdown_context") = 0
                  /\ client.state = "running"
            /\ Finished =>
                  /\ error = ""
                  /\ Occurrences(trace, "init_context") = 1
                  /\ Before("init_context", "shutdown_context")
                  /\ client.state = "closed")
    /\ [][Failed /\ pc' = "failed" => client' = client /\ trace' = trace]_vars

\* the second run, a Spark run, has ended in toPandas() with the session
\* still running
C17_Witness ==
    /\ Failed /\ notebook = SparkNb /\ error = "EngineError" /\ runs = 2
    /\ client.state = "running" /\ Occurrences(trace, "init_context") = 1
    /\ Occurrences(trace, "shutdown_context") = 0
    /\ results = <<>>

(***************************************************************************)
(* C18.  The claim: for the same input table the four engines produce the  *)
(* same set of (tax_id, count) pairs, differing at most in the order of    *)
(* groups with equal counts, also when some protein-coding rows have a     *)
(* missing taxonomy id.                                                    *)
(***************************************************************************)
\* the group table the notebook nb computes from the run's input
GroupsOf(nb) == GroupBySize(ReadGenes(nb, file_format), DropsNull(nb))

\* C18 as claimed: the in-memory group table of a run holds the same
\* (tax_id, count) pairs as the table each of the four notebooks computes from
\* the same input
C18_EnginesAgree ==
    Materialized => \A nb \in Harnesses : SetOf(groups) = SetOf(GroupsOf(nb))

(***************************************************************************)
(* C19.  The claim: a run writes at most one file in the results           *)
(* directory, the one named from its own engine, size, format and core     *)
(* count, and leaves every other file there unchanged; runs whose (engine, *)
(* size string, format, cores) differ never overwrite each other's result, *)
(* in any order of runs.                                                   *)
(***************************************************************************)
\* the core count of the run: the Pandas notebook has none and records 1
OwnCores == IF notebook = Pandas THEN 1 ELSE n_cores
OwnKey == <<EngineName(notebook), file_size, file_format, OwnCores>>
OwnName ==
    notebook \o "_" \o file_size \o "_" \o file_format \o "_"
             \o ToString(OwnCores) \o ".csv"

C20_NegativeCoresAsZero ==
    (InRun /\ notebook # Pandas /\ n_cores < 0) =>
        /\ "client" \in ns =>
              [NewContext(notebook, 0, client.started) EXCEPT
                  !.state = client.state, !.closed = client.closed] = client
        /\ IsPrefix(trace, StepsOf(notebook, 0))
        /\ results = results0 /\ RowsWritten = 0
        /\ error = "NameError" => ~ValidFormat
        /\ error = "FileNotFoundError" => ~InputsPresent
        /\ error \in {"", "NameError", "FileNotFoundError"}
        /\ ValidFormat /\ InputsPresent => ~Failed /\ (Finished \/ ENABLED RunStep)
        /\ Finished =>
              /\ trace = StepsOf(notebook, 0)
              /\ stdout # <<>>
              /\ stdout[Len(stdout)] = EngineName(notebook) \o ": "
                                          \o ToString(end - start) \o " sec."

\* a Dask-cuDF run with n_cores = -1 has run to its last cell with a default
\* client, printed the time and written nothing
C20_Witness ==
    /\ Finished /\ notebook = DaskCuda /\ n_cores = -1
    /\ ~client.sized /\ client.state = "closed"
    /\ Len(stdout) = 2 /\ results = results0
    /\ Occurrences(trace, "materialize") = 1

(***************************************************************************)
(* C21.  The claim: a parquet run depends on gene_info.tsv: every harness  *)
(* computes the recorded size from DATA_DIR/gene_info.tsv before the timer *)
(* starts, so when gene_info.tsv is absent a run with file_format =        *)
(* "parquet" fails at setup with a missing-file error even if              *)
(* gene_info.parquet is present, before the timer is started, before any   *)
(* context is started and before the results directory is created.         *)
(***************************************************************************)
\* C21: the first file a run touches is gene_info.tsv, sized by getsize, and
\* no timer is started before that; the recorded size is the size of
\* gene_info.tsv; a parquet run started without gene_info.tsv never leaves
\* the setup cell except by FileNotFoundError, and has then started no timer
\* and no context, executed no step and read nothing; the failing setup cell
\* does not create the results directory
C21_ParquetRunNeedsTsv ==
    /\ [](InRun =>
            /\ io # <<>> =>
                  /\ io[1].fn = "getsize"
                  /\ io[1].path = DataPath(DATA_DIR, "gene_info.tsv")
            /\ "start" \in ns => io # <<>> /\ "file_size" \in ns
            /\ "file_size" \in ns => file_size = FormatSize(data0.tsv.size)
            /\ file_format = "parquet" /\ ~data0.tsv.exists =>
                  /\ pc \in {"setup", "failed"}
                  /\ Failed => /\ error = "FileNotFoundError"
                               /\ Len(io) = 1
                               /\ ~ENABLED RunStep
                  /\ ns \cap {"start", "client", "RESULTS_DIR", "file_size", "genes"} = {}
                  /\ start = 0 /\ client = NoClient /\ trace = <<>>
                  /\ results = results0)
    /\ [][pc = "setup" /\ ~tsv.exists => results_dir' = results_dir]_vars

\* a Dask run on parquet has ended in its setup cell: gene_info.parquet is
\* there, gene_info.tsv is not, and there is no results directory
C21_Witness ==
    /\ Failed /\ notebook = Dask /\ file_format = "parquet" /\ n_cores = 2
    /\ data0.parquet.exists /\ ~data0.tsv.exists
    /\ error = "FileNotFoundError" /\ ~results_dir /\ Len(io) = 1

(***************************************************************************)
(* C22.  The claim: in the materialized group table every taxonomy id      *)
(* appears in exactly one row, every count is at least 1, the set of       *)
(* taxonomy ids equals the set of distinct non-null taxonomy ids among the *)
(* filtered rows, and sorting only permutes the rows of the grouped table. *)
(***************************************************************************)
\* b holds the rows of a, each as often as a does
IsPermutation(a, b) ==
    /\ Len(a) = Len(b)
    /\ \A r \in SetOf(a) \cup SetOf(b) : Occurrences(a, r) = Occurrences(b, r)

\* C22: in the in-memory group table of every engine no taxonomy id has two
\* rows and every count is at least 1; for pandas, Dask and Dask-cuDF the ids
\* of the table are the distinct non-null ids of the filtered input rows; the
\* table compute() / toPandas() returns is a permutation of the grouped table,
\* and so is the table pandas sorts
C22_GroupTableWellFormed ==
    /\ [](Materialized =>
            /\ \A i, j \in DOMAIN groups : groups[i].tax_id = groups[j].tax_id => i = j
            /\ \A i \in DOMAIN groups : groups[i].count >= 1
            /\ notebook # SparkNb =>
                  {groups[i].tax_id : i \in DOMAIN groups}
                    = {InputFile.rows[i]["#tax_id"] : i \in FilteredRows} \ {NULL}
            /\ notebook = Pandas =>
                  IsPermutation(GroupBySize(genes, TRUE), groups))
    /\ [][pc = "compute" /\ pc' = "close" => IsPermutation(groups, groups')]_vars

\* Dask has computed a table with the two ids of an input that also holds a
\* protein-coding row without id
C22_Witness ==
    /\ Materialized /\ notebook = Dask /\ file_format = "csv"
    /\ SetOf(groups) = {[tax_id |-> "9606", count |-> 1],
                        [tax_id |-> "10090", count |-> 1]}
    /\ \E i \in FilteredRows : InputFile.rows[i]["#tax_id"] = NULL

(***************************************************************************)
(* C23.  The claim: the Pandas harness has no core-count parameter: every  *)
(* successful Pandas run writes a result row, the row's cores field is     *)
(* always 1 and the file name always ends in _1.csv, and no processing     *)
(* context is started or shut down.                                        *)
(***************************************************************************)
\* C23: a Pandas run has no n_cores in its kernel and never a context, starts
\* and shuts down none, and changes no file but
\* 2-PandasDataframe_<size>_<format>_1.csv; when its last cell has run it has
\* written exactly one row, with cores = 1, into that file
C23_PandasAlwaysOneCore ==
    (InRun /\ notebook = Pandas) =>
        /\ "n_cores" \notin ns /\ "client" \notin ns
        /\ client = NoClient
        /\ Occurrences(trace, "init_context") = 0
        /\ Occurrences(trace, "shutdown_context") = 0
        /\ Changed \subseteq
              {"2-PandasDataframe_" \o file_size \o "_" \o file_format \o "_1.csv"}
        /\ \A f \in Changed :
              f \in DOMAIN results /\ results[f].frame.data[1].cores = 1
        /\ Finished => WroteOneRow

\* a Pandas run on parquet has written 2-PandasDataframe_6.5_parquet_1.csv
C23_Witness ==
    /\ Finished /\ notebook = Pandas /\ file_format = "parquet"
    /\ Changed = {"2-PandasDataframe_6.5_parquet_1.csv"}
    /\ results["2-PandasDataframe_6.5_parquet_1.csv"].frame.data[1].cores = 1
    /\ client = NoClient

(***************************************************************************)
(* C24.  The claim: re-running the fetch step against the same scratch     *)
(* directory is not idempotent as a whole: creating the data directory and *)
(* unzipping to gene_info.tsv are idempotent (the second run overwrites    *)
(* gene_info.tsv with the same content), but copying the parquet directory *)
(* fails when gene_info.parquet already exists, so a second run rewrites   *)
(* the tsv and then ends with an error at the parquet copy, leaving the    *)
(* existing parquet copy unchanged.                                        *)
(***************************************************************************)
FetchSteps == <<"makedirs", "unzip", "copytree">>

\* C24: a fetch run into a data directory makes the directory, unzips
\* gene_info.gz over gene_info.tsv and copies the parquet directory only when
\* DATA_DIR has none: with gene_info.parquet there it ends with
\* FileExistsError after the unzip and leaves that copy as it is; the run
\* after a complete run finds the tsv it writes already there, changes no
\* file and ends with that error
C24_FetchRerunFails ==
    /\ [](ClaimedDataDir # "" /\ fetch # NoFetch =>
            /\ tsv = TsvOf(home) /\ parquet.exists
            /\ fetch.error = "" <=> fetch.steps = FetchSteps
            /\ fetch.error = "FileExistsError" <=> fetch.steps = <<"makedirs", "unzip">>
            /\ fetch.error \in {"", "FileExistsError"})
    /\ [][ClaimedDataDir # "" /\ <<tsv, parquet, fetch>>' # <<tsv, parquet, fetch>> =>
            /\ tsv' = TsvOf(home)
            /\ parquet.exists =>
                  /\ parquet' = parquet
                  /\ fetch' = Fetched(<<"makedirs", "unzip">>, "FileExistsError")
            /\ ~parquet.exists =>
                  /\ parquet' = ParquetOf(home)
                  /\ fetch' = Fetched(FetchSteps, "")
            /\ fetch = Fetched(FetchSteps, "") =>
                  /\ tsv' = tsv /\ parquet' = parquet
                  /\ fetch'.error = "FileExistsError"]_vars

\* a fetch run has copied the parquet directory of the newer snapshot, and
\* the run after it has ended at the parquet copy
C24_Witness ==
    /\ fetch = Fetched(<<"makedirs", "unzip">>, "FileExistsError")
    /\ tsv = TsvOf(Snapshot2) /\ parquet = ParquetOf(Snapshot2)
    /\ data0.parquet = NoFile /\ runs = 1

====
